---- MODULE Spec2Model ----
(***************************************************************************)
(* Consultation-request dispatch of the cattle-health backend              *)
(* (backend/consultations): a symptom report creates a ConsultationRequest,*)
(* nearby veterinarians are notified, and they accept / decline / ask for  *)
(* information; the owner may expire the request.                          *)
(*                                                                         *)
(* Every web handler is a sequence of database statements (the production  *)
(* settings use PostgreSQL in autocommit mode, settings.py:79-83), so a    *)
(* handler is modelled as one step per statement on the request row, with  *)
(* the handler's in-memory model instance kept between the steps.  Django's*)
(* Model.save() writes every field of the instance back to the row.        *)
(***************************************************************************)
EXTENDS Integers, Sequences, FiniteSets, TLC

\* ------------------------------------------------------------------ bounds
NumVets == 3

\* how many times in a run a handler may start while another is in flight
MaxOverlaps == 1

Vets == 1..NumVets

\* ------------------------------------------------------- program constants
EMERGENCY_HOURS == 2
URGENT_HOURS == 6
NORMAL_HOURS == 24
INITIAL_RADIUS == 50
WIDE_RADIUS == 100
MAX_RADIUS == 200

\* NULL (assigned_veterinarian and accepted_at are nullable); vets and hours
\* are numbered from 1
None == 0

\* ---------------------------------------------------------------- id forms
\* User.id is a UUID; the JSON lists of the request row hold str(uuid).
\* A UUID never compares equal to its string form.
Uid(v) == <<"uuid", v>>

\* str(vet_id)
Str(u) == <<"str", u[2]>>

\* uuid.UUID(vet_id)
UUID(s) == <<"uuid", s[2]>>

Range(s) == {s[i] : i \in 1..Len(s)}

\* ------------------------------------------------------------ pure helpers
\* create_consultation_request_from_symptom_report: priority of a report
Priority(is_emergency, severity) ==
    IF is_emergency THEN "emergency"
    ELSE IF severity = "severe" THEN "urgent"
    ELSE "normal"

\* mutant: the urgent and the normal lifetimes swapped
ExpiresHours_swapped(is_emergency, severity) ==
    IF is_emergency THEN EMERGENCY_HOURS
    ELSE IF severity = "severe" THEN NORMAL_HOURS
    ELSE URGENT_HOURS

\* create_consultation_request_from_symptom_report: hours until expiry
ExpiresHours(is_emergency, severity) ==
    IF is_emergency THEN EMERGENCY_HOURS
    ELSE IF severity = "severe" THEN URGENT_HOURS
    ELSE NORMAL_HOURS

\* mutant: sms and email added for every priority but normal
NotificationChannels_urgent(priority) ==
    IF priority # "normal" THEN <<"app", "sms", "email">> ELSE <<"app">>

\* notify_nearby_veterinarians_for_consultation: channels of one record
NotificationChannels(priority) ==
    IF priority = "emergency" THEN <<"app", "sms", "email">> ELSE <<"app">>

\* ConsultationRequest.is_expired
is_expired(m, t) == t > m.expires_at

\* mutant: the status is set and the assignee is not
accept_without_assignee(m, v, t) ==
    IF m.status = "pending" /\ ~(t > m.expires_at)
    THEN [ok |-> TRUE, m |-> [m EXCEPT !.status = "accepted", !.accepted_at = t]]
    ELSE [ok |-> FALSE, m |-> m]

\* mutant: the clock is not looked at
accept_after_deadline(m, v, t) ==
    IF m.status = "pending"
    THEN [ok |-> TRUE,
          m  |-> [m EXCEPT !.status = "accepted", !.assigned = v, !.accepted_at = t]]
    ELSE [ok |-> FALSE, m |-> m]

\* ConsultationRequest.accept_by_veterinarian: [ok, m] where m is the
\* instance afterwards (saved when ok)
accept_by_veterinarian(m, v, t) ==
    IF m.status = "pending" /\ ~is_expired(m, t)
    THEN [ok |-> TRUE,
          m  |-> [m EXCEPT !.status = "accepted", !.assigned = v, !.accepted_at = t]]
    ELSE [ok |-> FALSE, m |-> m]

\* ConsultationRequest.decline_by_veterinarian: the membership test compares
\* the UUID veterinarian.id with the stored strings
decline_by_veterinarian(m, v) ==
    IF m.status = "pending" /\ Uid(v) \notin Range(m.declined)
    THEN [ok |-> TRUE, m |-> [m EXCEPT !.declined = Append(@, Str(Uid(v)))]]
    ELSE [ok |-> FALSE, m |-> m]

\* -------------------------------------------------------------- geo match
\* the veterinarians in the order VeterinarianProfile.objects yields them
VetSeq == [i \in 1..NumVets |-> i]

\* mutant: the general availability flag is asked for every priority
VetsQuery_available(m, d) ==
    LET already == {UUID(s) : s \in Range(m.requested)}
        keep(v) == d[v].verified /\ d[v].available /\ Uid(v) \notin already
    IN  SelectSeq(VetSeq, keep)

\* the queryset of notify_nearby_veterinarians_for_consultation: verified,
\* available for the priority, not already in requested_veterinarians
VetsQuery(m, d) ==
    LET already == {UUID(s) : s \in Range(m.requested)}
        keep(v) == /\ d[v].verified
                   /\ IF m.priority = "emergency" THEN d[v].emergency
                                                  ELSE d[v].available
                   /\ Uid(v) \notin already
    IN  SelectSeq(VetSeq, keep)

\* mutant: the distance is not compared with the radius
WithinRadius_nolimit(q, d, radius) ==
    LET near(v) == d[v].coords
    IN  SelectSeq(q, near)

\* one pass of the inner loop: the vets of the queryset with coordinates
\* that lie within radius
WithinRadius(q, d, radius) ==
    LET near(v) == d[v].coords /\ d[v].dist <= radius
    IN  SelectSeq(q, near)

\* mutant: (veterinarian, consultation_request) is not unique
CreateRecords_nounique(work, i, have, made) ==
    [created |-> work, error |-> FALSE]

\* VeterinarianNotificationRequest.objects.create for each vet of work in
\* turn; (veterinarian, consultation_request) is unique, so creating a
\* record that exists raises IntegrityError and ends the walk
RECURSIVE CreateRecords(_, _, _, _)
CreateRecords(work, i, have, made) ==
    IF i > Len(work) THEN [created |-> made, error |-> FALSE]
    ELSE IF work[i] \in have THEN [created |-> made, error |-> TRUE]
    ELSE CreateRecords(work, i + 1, have \cup {work[i]}, Append(made, work[i]))

\* mutant: the first search already uses the wide radius
SearchRadii_wide(expanded_radius) == <<WIDE_RADIUS, MAX_RADIUS>>

\* the two radii a call searches
SearchRadii(expanded_radius) ==
    IF expanded_radius THEN <<WIDE_RADIUS, MAX_RADIUS>>
    ELSE <<INITIAL_RADIUS, WIDE_RADIUS>>

\* notify_nearby_veterinarians_for_consultation.  have: the vets that hold a
\* record for this request.  created: the records inserted (they stay
\* inserted when a later insert raises); returned: the list handed back,
\* [] when the report has no coordinates or an exception was caught.
notify_nearby_veterinarians(m, expanded_radius, d, has_coords, have) ==
    IF ~has_coords THEN [created |-> <<>>, returned |-> <<>>, error |-> FALSE]
    ELSE
    LET q     == VetsQuery(m, d)
        radii == SearchRadii(expanded_radius)
        first == WithinRadius(q, d, radii[1])
        work  == IF first # <<>> /\ ~expanded_radius
                 THEN first
                 ELSE first \o WithinRadius(q, d, radii[2])
        got   == CreateRecords(work, 1, have, <<>>)
    IN  [created  |-> got.created,
         returned |-> IF got.error THEN <<>> ELSE got.created,
         error    |-> got.error]

\* [str(vet_id) for vet_id in notified_vets]
StrList(vs) == [i \in 1..Len(vs) |-> Str(Uid(vs[i]))]

\* the escalation test of respond_to_consultation_request (decline branch)
ShouldEscalate(m) == Len(m.declined) >= Len(m.requested) - 1

\* ------------------------------------------------------------------- state
VARIABLES
    now,           \* the clock, in hours
    report,        \* the SymptomReport's fields as submitted
    report_status, \* SymptomReport.status in the database ("absent" before)
    dir,           \* VeterinarianProfile rows: vet -> profile
    req,           \* the ConsultationRequest row (status "absent" before)
    notif,         \* VeterinarianNotificationRequest rows: vet -> record
    responses,     \* VeterinarianResponse rows: vet -> action ("none")
    patients,      \* VeterinarianPatient rows for the animal, in the order
                   \* inserted: [vet, status, request]
    owner_sent,    \* notifications created for the cattle owner
    taken_sent,    \* vets sent a "Consultation Request Taken" notification
    spc, smem,     \* submit_symptom_report: position, request instance
    vpc, vmem,     \* respond_to_consultation_request per vet: position
                   \* (the action once recorded), request instance
    opc, omem,     \* expire_consultation_request: position, instance
    accept_ok,     \* vets whose accept was answered "accepted successfully"
    expire_ok,     \* an expiry was written (manual endpoint or lazy)
    escalations,   \* calls of the expanded-radius search so far
    budget,        \* overlapping handler starts still allowed
    cattle,        \* Cattle rows of the owner: id -> row
    cattle_resp    \* the answer to the owner's last call on the herd

vars == <<now, report, report_status, dir, req, notif, responses, patients,
          owner_sent, taken_sent, spc, smem, vpc, vmem, opc, omem,
          accept_ok, expire_ok, escalations, budget, cattle, cattle_resp>>

\* no row / no instance
NoReq == [status |-> "absent", priority |-> "normal", assigned |-> None,
          requested |-> <<>>, declined |-> <<>>,
          created_at |-> None, expires_at |-> None, accepted_at |-> None]

NoNotif == [exists |-> FALSE, channels |-> <<>>, status |-> "none", distance_km |-> 0]

\* the vets holding a notification record for the request
Notified == {v \in Vets : notif[v].exists}

Severities == {"mild", "moderate", "severe"}

Actions == {"accept", "decline", "request_info"}

\* ------------------------------------------------------------------- herd
\* ids a Cattle row can get, and identification numbers the owner can type
NumCattle == 3

NumIdents == 2

CattleIds == 1..NumCattle

Idents == 1..NumIdents

\* no row under an id
NoCattle == [exists |-> FALSE, is_archived |-> FALSE, ident |-> None]

\* the row CattleCreateSerializer.create inserts (is_archived defaults to
\* False)
NewCattle(n) == [exists |-> TRUE, is_archived |-> FALSE, ident |-> n]

\* no call yet
NoResp == [op |-> "none", id |-> None, code |-> None]

\* Cattle.clean for the instance row under id c: no other non-archived row
\* of the owner has its identification number
clean(table, c, row) ==
    ~\E d \in CattleIds \ {c} :
        /\ table[d].exists
        /\ ~table[d].is_archived
        /\ table[d].ident = row.ident

\* Cattle.save: clean() raises ValidationError, or the row is written
save_cattle(table, c, row) ==
    IF clean(table, c, row)
    THEN [ok |-> TRUE, table |-> [table EXCEPT ![c] = row]]
    ELSE [ok |-> FALSE, table |-> table]

\* mutant: the row is deleted
archive_removes(table, c) ==
    [ok |-> TRUE, table |-> [table EXCEPT ![c] = NoCattle]]

\* Cattle.archive
archive(table, c) ==
    save_cattle(table, c, [table[c] EXCEPT !.is_archived = TRUE])

\* Cattle.restore
restore(table, c) ==
    save_cattle(table, c, [table[c] EXCEPT !.is_archived = FALSE])

\* CattleListCreateView.get_queryset: the owner's regular list
RegularList(table) ==
    {c \in CattleIds : table[c].exists /\ table[c].is_archived = FALSE}

\* archived_cattle: the owner's archived list
ArchivedList(table) ==
    {c \in CattleIds : table[c].exists /\ table[c].is_archived = TRUE}

\* the herd when the report is submitted: the animal it is about
ReportedHerd == [c \in CattleIds |-> IF c = 1 THEN NewCattle(1) ELSE NoCattle]

\* ------------------------------------------------------- directory inputs
\* profiles a veterinarian can have: distance from the report (km) and flags
Profile(dist, verified, available, emergency, coords) ==
    [dist |-> dist, verified |-> verified, available |-> available,
     emergency |-> emergency, coords |-> coords]

Near       == Profile(50, TRUE, TRUE, TRUE, TRUE)
Mid        == Profile(100, TRUE, TRUE, TRUE, TRUE)
Far        == Profile(200, TRUE, TRUE, TRUE, TRUE)
Beyond     == Profile(201, TRUE, TRUE, TRUE, TRUE)
OnCall     == Profile(40, TRUE, FALSE, TRUE, TRUE)
DayOnly    == Profile(60, TRUE, TRUE, FALSE, TRUE)
Unverified == Profile(20, FALSE, TRUE, TRUE, TRUE)
NoCoords   == Profile(10, TRUE, TRUE, TRUE, FALSE)

\* a directory repeats a pattern of profiles over the vets
Directory(pattern) == [v \in Vets |-> pattern[((v - 1) % Len(pattern)) + 1]]

\* handlers between their first and their last database statement
InFlight ==
    Cardinality({v \in Vets : vpc[v] # "idle"})
    + (IF opc # "idle" THEN 1 ELSE 0)
    + (IF spc \in {"save", "report_save"} THEN 1 ELSE 0)

\* a handler starts: alone, or overlapping the handlers in flight
StartCall ==
    IF InFlight = 0 THEN budget' = budget
    ELSE budget > 0 /\ budget' = budget - 1

InitWith(reports, patterns, w) ==
    /\ budget = w
    /\ now = 1
    /\ report \in reports
    /\ report_status = "absent"
    /\ \E p \in patterns : dir = Directory(p)
    /\ req = NoReq
    /\ notif = [v \in Vets |-> NoNotif]
    /\ responses = [v \in Vets |-> "none"]
    /\ patients = <<>>
    /\ owner_sent = {}
    /\ taken_sent = {}
    /\ spc = "start" /\ smem = NoReq
    /\ vpc = [v \in Vets |-> "idle"]
    /\ vmem = [v \in Vets |-> NoReq]
    /\ opc = "idle" /\ omem = NoReq
    /\ accept_ok = {}
    /\ expire_ok = FALSE
    /\ escalations = 0
    /\ cattle = ReportedHerd
    /\ cattle_resp = NoResp

\* ------------------------------------------------- submit_symptom_report
\* ConsultationRequest.objects.create(...) for a report submitted at hour t
NewRequest(rep, t) ==
    [status |-> "pending",
     priority |-> Priority(rep.is_emergency, rep.severity),
     assigned |-> None, requested |-> <<>>, declined |-> <<>>,
     created_at |-> t,
     expires_at |-> t + ExpiresHours(rep.is_emergency, rep.severity),
     accepted_at |-> None]

\* the record VeterinarianNotificationRequest.objects.create inserts
NewNotif(m, d, v) ==
    [exists |-> TRUE, channels |-> NotificationChannels(m.priority),
     status |-> "sent", distance_km |-> d[v].dist]

\* the notification table after a search inserted the records of created
WithRecords(m, d, created) ==
    [v \in Vets |-> IF v \in Range(created) THEN NewNotif(m, d, v) ELSE notif[v]]

\* serializer.save(), ConsultationRequest.objects.create and
\* notify_nearby_veterinarians_for_consultation(consultation_request).  The
\* request id is made here and reaches nobody before the notification
\* records exist, so no other handler can address the row in between.
SubmitCreate ==
    /\ spc = "start"
    /\ StartCall
    /\ report_status' = "submitted"
    /\ req' = NewRequest(report, now)
    /\ LET m == NewRequest(report, now)
           r == notify_nearby_veterinarians(m, FALSE, dir, report.has_coords, Notified)
       IN  /\ notif' = WithRecords(m, dir, r.created)
           /\ smem' = [m EXCEPT !.requested = StrList(r.returned)]
    /\ spc' = "save"
    /\ UNCHANGED <<cattle, cattle_resp, now, report, dir, responses, patients, owner_sent,
                   taken_sent, vpc, vmem, opc, omem, accept_ok,
                   expire_ok, escalations>>

\* consultation_request.save() with the list of notified vets
SubmitSave ==
    /\ spc = "save"
    /\ req' = smem
    /\ spc' = "report_save"
    /\ UNCHANGED <<cattle, cattle_resp, now, report, report_status, dir, notif, responses, patients,
                   owner_sent, taken_sent, smem, vpc, vmem, opc, omem,
                   accept_ok, expire_ok, escalations, budget>>

\* symptom_report.status = 'notified'; symptom_report.save()
SubmitReportSave ==
    /\ spc = "report_save"
    /\ report_status' = "notified"
    /\ spc' = "done"
    /\ smem' = NoReq
    /\ UNCHANGED <<cattle, cattle_resp, now, report, dir, req, notif, responses, patients,
                   owner_sent, taken_sent, vpc, vmem, opc, omem,
                   accept_ok, expire_ok, escalations, budget>>

\* ---------------------------------------- respond_to_consultation_request
\* the handler leaves: its instance is dropped
Leave(v) ==
    /\ vpc' = [vpc EXCEPT ![v] = "idle"]
    /\ vmem' = [vmem EXCEPT ![v] = NoReq]

\* mutant: the handler goes on without the pending check
RespondLoad_unchecked(v, a) ==
    /\ vpc[v] = "idle"
    /\ StartCall
    /\ req.status # "absent"
    /\ IF req.status = "pending" /\ is_expired(req, now)
       THEN /\ vpc' = [vpc EXCEPT ![v] = "expire_save"]
            /\ vmem' = [vmem EXCEPT ![v] = [req EXCEPT !.status = "expired"]]
            /\ UNCHANGED <<notif, responses>>
       ELSE /\ notif' = IF notif[v].exists
                        THEN [notif EXCEPT ![v].status = "responded"]
                        ELSE notif
            /\ IF responses[v] # "none"
               THEN /\ vpc' = [vpc EXCEPT ![v] = "idle"]
                    /\ vmem' = [vmem EXCEPT ![v] = NoReq]
                    /\ UNCHANGED responses
               ELSE /\ responses' = [responses EXCEPT ![v] = a]
                    /\ vpc' = [vpc EXCEPT ![v] = a]
                    /\ vmem' = [vmem EXCEPT ![v] = req]
    /\ UNCHANGED <<cattle, cattle_resp, now, report, report_status, dir, req, patients, owner_sent,
                   taken_sent, spc, smem, opc, omem, accept_ok, expire_ok,
                   escalations>>

\* mutant: no uniqueness of (veterinarian, consultation_request); a further
\* response replaces the stored one and is processed
RespondLoad_again(v, a) ==
    /\ vpc[v] = "idle"
    /\ StartCall
    /\ req.status # "absent"
    /\ IF req.status # "pending"
       THEN /\ vpc' = [vpc EXCEPT ![v] = "idle"]
            /\ vmem' = [vmem EXCEPT ![v] = NoReq]
            /\ UNCHANGED <<notif, responses>>
       ELSE IF is_expired(req, now)
       THEN /\ vpc' = [vpc EXCEPT ![v] = "expire_save"]
            /\ vmem' = [vmem EXCEPT ![v] = [req EXCEPT !.status = "expired"]]
            /\ UNCHANGED <<notif, responses>>
       ELSE /\ notif' = IF notif[v].exists
                        THEN [notif EXCEPT ![v].status = "responded"]
                        ELSE notif
            /\ responses' = [responses EXCEPT ![v] = a]
            /\ vpc' = [vpc EXCEPT ![v] = a]
            /\ vmem' = [vmem EXCEPT ![v] = req]
    /\ UNCHANGED <<cattle, cattle_resp, now, report, report_status, dir, req, patients, owner_sent,
                   taken_sent, spc, smem, opc, omem, accept_ok, expire_ok,
                   escalations>>

\* get_object_or_404, the pending check, the lazy expiry check, then
\* notification.mark_as_responded() and VeterinarianResponse.objects.create.
\* (veterinarian, consultation_request) is unique: a second response raises
\* IntegrityError and the handler answers 500, the mark staying written.
\* The two rows written belong to this vet alone, so the statements are one
\* step with the read of the request row.
RespondLoad(v, a) ==
    /\ vpc[v] = "idle"
    /\ StartCall
    /\ req.status # "absent"
    /\ IF req.status # "pending"
       THEN /\ Leave(v)
            /\ UNCHANGED <<notif, responses>>
       ELSE IF is_expired(req, now)
       THEN /\ vpc' = [vpc EXCEPT ![v] = "expire_save"]
            /\ vmem' = [vmem EXCEPT ![v] = [req EXCEPT !.status = "expired"]]
            /\ UNCHANGED <<notif, responses>>
       ELSE /\ notif' = IF notif[v].exists
                        THEN [notif EXCEPT ![v].status = "responded"]
                        ELSE notif
            /\ IF responses[v] # "none"
               THEN /\ Leave(v)
                    /\ UNCHANGED responses
               ELSE /\ responses' = [responses EXCEPT ![v] = a]
                    /\ vpc' = [vpc EXCEPT ![v] = a]
                    /\ vmem' = [vmem EXCEPT ![v] = req]
    /\ UNCHANGED <<cattle, cattle_resp, now, report, report_status, dir, req, patients, owner_sent,
                   taken_sent, spc, smem, opc, omem, accept_ok, expire_ok,
                   escalations>>

\* consultation_request.status = 'expired'; consultation_request.save()
RespondExpireSave(v) ==
    /\ vpc[v] = "expire_save"
    /\ req' = vmem[v]
    /\ expire_ok' = TRUE
    /\ Leave(v)
    /\ UNCHANGED <<cattle, cattle_resp, now, report, report_status, dir, notif, responses, patients,
                   owner_sent, taken_sent, spc, smem, opc, omem, accept_ok,
                   escalations, budget>>

\* action == 'accept': accept_by_veterinarian checks the instance and the
\* clock and saves the instance
AcceptSave(v) ==
    /\ vpc[v] = "accept"
    /\ LET r == accept_by_veterinarian(vmem[v], v, now)
       IN  IF r.ok
           THEN /\ req' = r.m
                /\ vmem' = [vmem EXCEPT ![v] = r.m]
                /\ vpc' = [vpc EXCEPT ![v] = "accept_post"]
           ELSE /\ Leave(v)
                /\ req' = req
    /\ UNCHANGED <<cattle, cattle_resp, now, report, report_status, dir, notif, responses, patients,
                   owner_sent, taken_sent, spc, smem, opc, omem, accept_ok,
                   expire_ok, escalations, budget>>

\* mutant: a row is inserted without looking for the vet's row first
create_patient(ps, v, r) ==
    Append(ps, [vet |-> v, status |-> "active", request |-> r])

\* VeterinarianPatient.objects.get_or_create on (veterinarian, cattle), the
\* defaults naming the request r: the vet's row when there is one, as it
\* is, and else a new row with the default status
get_or_create_patient(ps, v, r) ==
    IF \E i \in 1..Len(ps) : ps[i].vet = v
    THEN ps
    ELSE Append(ps, [vet |-> v, status |-> "active", request |-> r])

\* after a successful accept: patient record, report status, notifications
\* to the owner and to the other notified vets, and the 200 answer
AcceptPost(v) ==
    /\ vpc[v] = "accept_post"
    /\ patients' = get_or_create_patient(patients, v, "this")
    /\ report_status' = "accepted"
    /\ owner_sent' = owner_sent \cup {"accepted"}
    /\ taken_sent' = taken_sent \cup {<<v, w>> : w \in Notified \ {v}}
    /\ accept_ok' = accept_ok \cup {v}
    /\ Leave(v)
    /\ UNCHANGED <<cattle, cattle_resp, now, report, dir, req, notif, responses, spc, smem, opc,
                   omem, expire_ok, escalations, budget>>

\* action == 'decline': decline_by_veterinarian saves the instance
DeclineSave(v) ==
    /\ vpc[v] = "decline"
    /\ LET r == decline_by_veterinarian(vmem[v], v)
       IN  /\ req' = IF r.ok THEN r.m ELSE req
           /\ vmem' = [vmem EXCEPT ![v] = r.m]
    /\ vpc' = [vpc EXCEPT ![v] = "decline_check"]
    /\ UNCHANGED <<cattle, cattle_resp, now, report, report_status, dir, notif, responses, patients,
                   owner_sent, taken_sent, spc, smem, opc, omem,
                   accept_ok, expire_ok, escalations, budget>>

\* the escalation test on the instance, and the expanded-radius search
DeclineCheck(v) ==
    /\ vpc[v] = "decline_check"
    /\ IF ShouldEscalate(vmem[v])
       THEN LET r == notify_nearby_veterinarians(vmem[v], TRUE, dir,
                                                 report.has_coords, Notified)
            IN  /\ notif' = WithRecords(vmem[v], dir, r.created)
                /\ escalations' = escalations + 1
                /\ IF r.returned # <<>>
                   THEN /\ vmem' = [vmem EXCEPT ![v].requested = @ \o StrList(r.returned)]
                        /\ vpc' = [vpc EXCEPT ![v] = "escalate_save"]
                           ELSE Leave(v)
       ELSE /\ Leave(v)
            /\ UNCHANGED <<notif, escalations, budget>>
    /\ UNCHANGED <<cattle, cattle_resp, now, report, report_status, dir, req, responses, patients,
                   owner_sent, taken_sent, spc, smem, opc, omem, accept_ok,
                   expire_ok, budget>>

\* requested_veterinarians.extend(...); consultation_request.save()
EscalateSave(v) ==
    /\ vpc[v] = "escalate_save"
    /\ req' = vmem[v]
    /\ Leave(v)
    /\ UNCHANGED <<cattle, cattle_resp, now, report, report_status, dir, notif, responses, patients,
                   owner_sent, taken_sent, spc, smem, opc, omem, accept_ok,
                   expire_ok, escalations, budget>>

\* action == 'request_info': a notification to the owner
RequestInfo(v) ==
    /\ vpc[v] = "request_info"
    /\ owner_sent' = owner_sent \cup {"info_requested"}
    /\ Leave(v)
    /\ UNCHANGED <<cattle, cattle_resp, now, report, report_status, dir, req, notif, responses,
                   patients, taken_sent, spc, smem, opc, omem, accept_ok,
                   expire_ok, escalations, budget>>

\* -------------------------------------------- expire_consultation_request
\* get_object_or_404 and the pending check, by the owner or an admin
ExpireLoad ==
    /\ opc = "idle"
    /\ StartCall
    /\ req.status = "pending"
    /\ omem' = [req EXCEPT !.status = "expired"]
    /\ opc' = "save"
    /\ UNCHANGED <<cattle, cattle_resp, now, report, report_status, dir, req, notif, responses,
                   patients, owner_sent, taken_sent, spc, smem, vpc,
                   vmem, accept_ok, expire_ok, escalations>>

\* consultation_request.save() and the 200 answer
ExpireSave ==
    /\ opc = "save"
    /\ req' = omem
    /\ expire_ok' = TRUE
    /\ opc' = "idle"
    /\ omem' = NoReq
    /\ UNCHANGED <<cattle, cattle_resp, now, report, report_status, dir, notif, responses, patients,
                   owner_sent, taken_sent, spc, smem, vpc, vmem,
                   accept_ok, escalations, budget>>

\* ------------------------------------------------------------------ clock
\* The code reads the clock only in now > expires_at, so time moves to the
\* deadline or past it.
Tick ==
    /\ req.status # "absent"
    /\ \E t \in {req.expires_at, req.expires_at + 1} : t > now /\ now' = t
    /\ UNCHANGED <<cattle, cattle_resp, report, report_status, dir, req, notif,
                   responses, patients, owner_sent, taken_sent, spc, smem, vpc,
                   vmem, opc, omem, accept_ok, expire_ok, escalations, budget>>

\* ---------------------------------------------------------- specification
Reports == [is_emergency : BOOLEAN, severity : Severities, has_coords : BOOLEAN]

EmergencyReport == [is_emergency |-> TRUE, severity |-> "moderate", has_coords |-> TRUE]

SevereReport == [is_emergency |-> FALSE, severity |-> "severe", has_coords |-> TRUE]

\* the interleaved specification: an emergency with two vets in the first
\* radius and one in the second, or a severe case with two vets in the
\* second radius and one in the third; MaxOverlaps overlapping starts
Init ==
    \/ InitWith({EmergencyReport}, {<<Near, Near, Mid>>}, MaxOverlaps)
    \/ InitWith({SevereReport}, {<<Mid, Mid, Far>>}, MaxOverlaps)

Next ==
    \/ SubmitCreate
    \/ SubmitSave
    \/ SubmitReportSave
    \/ \E v \in Vets : \E a \in Actions : RespondLoad(v, a)
    \/ \E v \in Vets : RespondExpireSave(v)
    \/ \E v \in Vets : AcceptSave(v)
    \/ \E v \in Vets : AcceptPost(v)
    \/ \E v \in Vets : DeclineSave(v)
    \/ \E v \in Vets : DeclineCheck(v)
    \/ \E v \in Vets : EscalateSave(v)
    \/ \E v \in Vets : RequestInfo(v)
    \/ ExpireLoad
    \/ ExpireSave
    \/ Tick

Spec == Init /\ [][Next]_vars

\* ------------------------------------------------- serial specification
\* every report and a range of directories, handlers run one after another
Patterns ==
    {<<Near, Near, Mid>>, <<Mid, Mid, Far>>, <<Near, Far, Beyond>>,
     <<OnCall, DayOnly, Near>>, <<Unverified, NoCoords, Mid>>,
     <<Far, Far, Beyond>>, <<Beyond, Unverified, NoCoords>>,
     <<Mid, OnCall, Far>>}

SerialInit == InitWith(Reports, Patterns, 0)

SerialSpec == SerialInit /\ [][Next]_vars

\* ------------------------------------------- model methods called directly
\* the most entries a directly driven declined_by list is followed to
MaxDeclined == 3

\* consultation_request.accept_by_veterinarian(vet) on the stored request,
\* as tests.py:138 and test_symptom_workflow.py:115 call it
AcceptCall(v) ==
    /\ InFlight = 0
    /\ req.status # "absent"
    /\ req' = accept_by_veterinarian(req, v, now).m
    /\ UNCHANGED <<cattle, cattle_resp, now, report, report_status, dir, notif, responses, patients,
                   owner_sent, taken_sent, spc, smem, vpc, vmem, opc, omem,
                   accept_ok, expire_ok, escalations, budget>>

\* consultation_request.decline_by_veterinarian(vet) on the stored request
DeclineCall(v) ==
    /\ InFlight = 0
    /\ req.status # "absent"
    /\ Len(req.declined) < MaxDeclined
    /\ req' = decline_by_veterinarian(req, v).m
    /\ UNCHANGED <<cattle, cattle_resp, now, report, report_status, dir, notif, responses, patients,
                   owner_sent, taken_sent, spc, smem, vpc, vmem, opc, omem,
                   accept_ok, expire_ok, escalations, budget>>

MethodNext ==
    \/ SubmitCreate
    \/ SubmitSave
    \/ SubmitReportSave
    \/ \E v \in Vets : AcceptCall(v)
    \/ \E v \in Vets : DeclineCall(v)
    \/ Tick

MethodInit == InitWith(Reports, {<<Near, Near, Mid>>, <<Mid, Mid, Far>>}, 0)

MethodSpec == MethodInit /\ [][MethodNext]_vars

\* ------------------------------------------------- the vet's patient list
\* the most earlier requests for the animal that are followed
MaxEarlier == 1

\* an earlier consultation request for the same animal, accepted by v before
\* this report is submitted: of its handler only the get_or_create on the
\* patient table is kept
EarlierAccept(v) ==
    /\ spc = "start"
    /\ Len(patients) < MaxEarlier
    /\ patients' = get_or_create_patient(patients, v, "earlier")
    /\ UNCHANGED <<cattle, cattle_resp, now, report, report_status, dir, req, notif, responses,
                   owner_sent, taken_sent, spc, smem, vpc, vmem, opc, omem,
                   accept_ok, expire_ok, escalations, budget>>

\* VeterinarianPatient.mark_as_completed
mark_as_completed(row) == [row EXCEPT !.status = "completed"]

\* mark_patient_completed: the vet closes the case of a patient of theirs
MarkPatientCompleted(v) ==
    /\ InFlight = 0
    /\ \E i \in 1..Len(patients) :
           /\ patients[i].vet = v
           /\ patients' = [patients EXCEPT ![i] = mark_as_completed(@)]
    /\ UNCHANGED <<cattle, cattle_resp, now, report, report_status, dir, req, notif, responses,
                   owner_sent, taken_sent, spc, smem, vpc, vmem, opc, omem,
                   accept_ok, expire_ok, escalations, budget>>

PatientNext ==
    \/ SubmitCreate
    \/ SubmitSave
    \/ SubmitReportSave
    \/ \E v \in Vets : \E a \in Actions : RespondLoad(v, a)
    \/ \E v \in Vets : RespondExpireSave(v)
    \/ \E v \in Vets : AcceptSave(v)
    \/ \E v \in Vets : AcceptPost(v)
    \/ \E v \in Vets : DeclineSave(v)
    \/ \E v \in Vets : DeclineCheck(v)
    \/ \E v \in Vets : EscalateSave(v)
    \/ \E v \in Vets : RequestInfo(v)
    \/ ExpireLoad
    \/ ExpireSave
    \/ Tick
    \/ \E v \in Vets : EarlierAccept(v)
    \/ \E v \in Vets : MarkPatientCompleted(v)

PatientInit == InitWith({EmergencyReport, SevereReport}, {<<Mid, Mid, Far>>}, 0)

PatientSpec == PatientInit /\ [][PatientNext]_vars

\* ---------------------------------------------------------- cattle views
\* the variables of the consultation handlers
dispatch_vars == <<now, report, report_status, dir, req, notif, responses,
                   patients, owner_sent, taken_sent, spc, smem, vpc, vmem,
                   opc, omem, accept_ok, expire_ok, escalations, budget>>

\* CattleListCreateView.create: validate_identification_number answers 400
\* when a non-archived row has the number; else the row is saved under a
\* new id
CreateCattle(c, n) ==
    /\ ~cattle[c].exists
    /\ IF \E d \in RegularList(cattle) : cattle[d].ident = n
       THEN /\ cattle' = cattle
            /\ cattle_resp' = [op |-> "create", id |-> None, code |-> 400]
       ELSE LET r == save_cattle(cattle, c, NewCattle(n))
            IN  /\ cattle' = r.table
                /\ cattle_resp' = [op |-> "create", id |-> c,
                                   code |-> IF r.ok THEN 201 ELSE 500]
    /\ UNCHANGED dispatch_vars

\* CattleDetailView.destroy: get_object on the owner's rows, archived ones
\* included, then archive(); a ValidationError of save is not caught
DestroyCattle(c) ==
    /\ IF ~cattle[c].exists
       THEN /\ cattle' = cattle
            /\ cattle_resp' = [op |-> "destroy", id |-> c, code |-> 404]
       ELSE LET r == archive(cattle, c)
            IN  /\ cattle' = r.table
                /\ cattle_resp' = [op |-> "destroy", id |-> c,
                                   code |-> IF r.ok THEN 200 ELSE 500]
    /\ UNCHANGED dispatch_vars

\* restore_cattle: get_object_or_404 on the owner's archived rows, then
\* restore()
RestoreCattle(c) ==
    /\ IF c \notin ArchivedList(cattle)
       THEN /\ cattle' = cattle
            /\ cattle_resp' = [op |-> "restore", id |-> c, code |-> 404]
       ELSE LET r == restore(cattle, c)
            IN  /\ cattle' = r.table
                /\ cattle_resp' = [op |-> "restore", id |-> c,
                                   code |-> IF r.ok THEN 200 ELSE 500]
    /\ UNCHANGED dispatch_vars

CattleNext ==
    \/ \E c \in CattleIds : \E n \in Idents : CreateCattle(c, n)
    \/ \E c \in CattleIds : DestroyCattle(c)
    \/ \E c \in CattleIds : RestoreCattle(c)

CattleInit == InitWith({EmergencyReport}, {<<Near, Near, Mid>>}, 0)

CattleSpec == CattleInit /\ [][CattleNext]_vars

\* ------------------------------------------------- what runs by itself
\* A handler that has started runs to its end, and the clock advances.  No
\* call is made by itself: the repository schedules no job and no task that
\* touches consultation requests, so a handler starts only when a user
\* calls it.
HandlersFinish ==
    /\ WF_vars(SubmitSave)
    /\ WF_vars(SubmitReportSave)
    /\ WF_vars(ExpireSave)
    /\ \A v \in Vets :
           /\ WF_vars(RespondExpireSave(v))
           /\ WF_vars(AcceptSave(v))
           /\ WF_vars(AcceptPost(v))
           /\ WF_vars(DeclineSave(v))
           /\ WF_vars(DeclineCheck(v))
           /\ WF_vars(EscalateSave(v))
           /\ WF_vars(RequestInfo(v))

LiveInit == InitWith({EmergencyReport, SevereReport}, {<<Mid, Mid, Far>>}, 0)

LiveSpec == LiveInit /\ [][Next]_vars /\ HandlersFinish /\ WF_vars(Tick)

\* ------------------------------------------- a fan-out that raises part-way
\* mutant: the vets planned for notification are returned despite the error
FanOutFails_returns(m, d, k) ==
    LET r == notify_nearby_veterinarians(m, FALSE, d, TRUE, {})
    IN  [created |-> SubSeq(r.created, 1, k), returned |-> r.created, error |-> TRUE]

\* notify_nearby_veterinarians_for_consultation of a new request when the
\* loop raises while handling vet number k + 1 (the distance computation or
\* the insert): the k records created before it stay (autocommit), the
\* exception is printed and [] is returned
FanOutFails(m, d, k) ==
    LET r == notify_nearby_veterinarians(m, FALSE, d, TRUE, {})
    IN  [created |-> SubSeq(r.created, 1, k), returned |-> <<>>, error |-> TRUE]

\* create_consultation_request_from_symptom_report whose fan-out raises
SubmitCreateFails(k) ==
    /\ spc = "start"
    /\ report.has_coords
    /\ k < Len(notify_nearby_veterinarians(NewRequest(report, now), FALSE, dir,
                                           TRUE, {}).created)
    /\ StartCall
    /\ report_status' = "submitted"
    /\ req' = NewRequest(report, now)
    /\ LET m == NewRequest(report, now)
           r == FanOutFails(m, dir, k)
       IN  /\ notif' = WithRecords(m, dir, r.created)
           /\ smem' = [m EXCEPT !.requested = StrList(r.returned)]
    /\ spc' = "save"
    /\ UNCHANGED <<cattle, cattle_resp, now, report, dir, responses, patients, owner_sent,
                   taken_sent, vpc, vmem, opc, omem, accept_ok,
                   expire_ok, escalations>>

FaultNext ==
    \/ Next
    \/ \E k \in 0..(NumVets - 1) : SubmitCreateFails(k)

FaultPatterns == {<<Near, Near, Mid>>, <<Mid, Mid, Far>>}

FaultInit == InitWith(Reports, FaultPatterns, 0)

FaultSpec == FaultInit /\ [][FaultNext]_vars

\* ------------------------------------------------------------------ claims
AllIdle == InFlight = 0

\* C1: at-most-one-winner.  Of the Accept calls on a request at most one is
\* answered "accepted successfully", and once the calls are over an accepted
\* request is assigned to the veterinarian whose call succeeded.
C1_AtMostOneWinner ==
    /\ Cardinality(accept_ok) <= 1
    /\ (AllIdle /\ req.status = "accepted") => req.assigned \in accept_ok

\* C2: expiry exclusivity.  A request on which an expiry was written is never
\* afterwards accepted, and a request whose Accept reported success is never
\* afterwards expired.
C2_ExpiryExclusive ==
    /\ expire_ok => req.status # "accepted"
    /\ accept_ok # {} => req.status # "expired"

\* C3: terminal states are final.  No step of Accept, Decline, Expire or
\* Escalate (any step but those of the submit handler) changes the status,
\* the assigned veterinarian, the notified list or the declined list of a
\* request that is accepted or expired.
C3_TerminalFinal ==
    [][(req.status \in {"accepted", "expired"} /\ spc' = spc) =>
         /\ req'.status = req.status
         /\ req'.assigned = req.assigned
         /\ req'.requested = req.requested
         /\ req'.declined = req.declined]_vars

\* C4: in every state of the stored request, assigned_veterinarian is
\* non-null exactly when the status is accepted.
C4_AssignedIffAccepted == (req.assigned # None) <=> (req.status = "accepted")

C4_Witness ==
    /\ accept_ok # {}
    /\ req.status = "accepted"
    /\ req.assigned \in Vets
    /\ expire_ok

\* C5: the declined list of the stored request is a subset of its notified
\* list.
C5_DeclinedSubsetNotified == Range(req.declined) \subseteq Range(req.requested)

\* C6: escalation trigger.  The expanded-radius search that a Decline
\* triggers runs only while the stored request is pending: it never runs
\* for a request whose stored status is accepted or expired.
C6_EscalateOnlyPending ==
    [][(escalations' = escalations + 1) => req.status = "pending"]_vars

\* C7: bounded escalation.  The expanded-radius search runs at most twice
\* for a request, also when every veterinarian who responded had been
\* notified of it.
C7_AtMostTwoEscalations ==
    (\A v \in Vets : responses[v] # "none" => Str(Uid(v)) \in Range(req.requested))
        => escalations <= 2

\* C8: decline is idempotent.  No veterinarian appears twice in the declined
\* list, however often decline_by_veterinarian is called for them.
C8_DeclinedOnce ==
    \A i, j \in 1..Len(req.declined) :
        i # j => req.declined[i] # req.declined[j]

\* C9: the request's priority is emergency when the report is flagged as an
\* emergency, else urgent when its severity is severe, else normal, and
\* expires_at is the creation hour plus 2, 6 and 24 hours respectively.
C9_PriorityAndExpiry ==
    req.status # "absent" =>
        /\ report.is_emergency =>
               req.priority = "emergency" /\ req.expires_at = req.created_at + 2
        /\ (~report.is_emergency /\ report.severity = "severe") =>
               req.priority = "urgent" /\ req.expires_at = req.created_at + 6
        /\ (~report.is_emergency /\ report.severity # "severe") =>
               req.priority = "normal" /\ req.expires_at = req.created_at + 24

C9_Witness ==
    /\ spc = "done"
    /\ ~report.is_emergency /\ report.severity = "severe"
    /\ req.priority = "urgent"
    /\ now > req.created_at

\* C10: every notification record of a request carries the channels app, sms
\* and email when the request is an emergency, and app alone otherwise,
\* whether the record was created with the request or by an escalation.
C10_Channels ==
    \A v \in Vets :
        notif[v].exists =>
            Range(notif[v].channels) =
                IF req.priority = "emergency" THEN {"app", "sms", "email"}
                                              ELSE {"app"}

\* an emergency record created by an escalation: creation never searches
\* beyond 100 km
C10_Witness ==
    /\ req.priority = "emergency"
    /\ escalations > 0
    /\ \E v \in Vets : notif[v].exists /\ dir[v].dist > 100
    /\ \E v \in Vets : notif[v].exists /\ dir[v].dist <= 100

\* C11: eligibility of the notified.  Every veterinarian holding a
\* notification record of the request is verified, has a location within the
\* radius searched (100 km while no escalation ran, 200 km after), and is
\* emergency-available when the request is an emergency, whatever the general
\* availability flag, or generally available otherwise.
C11_NotifiedEligible ==
    \A v \in Vets :
        notif[v].exists =>
            /\ dir[v].verified
            /\ dir[v].coords
            /\ dir[v].dist <= (IF escalations = 0 THEN WIDE_RADIUS ELSE MAX_RADIUS)
            /\ IF req.priority = "emergency" THEN dir[v].emergency
                                              ELSE dir[v].available

\* an emergency whose on-call vet (not generally available) is notified and
\* whose vet without emergency duty is not, an escalation having run
C11_Witness ==
    /\ req.priority = "emergency"
    /\ escalations > 0
    /\ \E v \in Vets : notif[v].exists /\ ~dir[v].available
    /\ \E v \in Vets : ~notif[v].exists /\ dir[v].available /\ ~dir[v].emergency
                        /\ dir[v].dist <= WIDE_RADIUS

\* C12: the radius rule of request creation.  When the request and its list
\* of notified vets have been written (before the report row is touched
\* again), the vets holding a notification record are exactly the eligible
\* vets within 50 km when there is one, and else exactly the eligible vets
\* within 100 km; the request is pending, nobody has declined, and the
\* notified list names exactly the vets holding a record.
C12_RadiusRule ==
    (spc = "report_save" /\ report.has_coords) =>
        LET eligible(v) == /\ dir[v].verified
                           /\ dir[v].coords
                           /\ IF req.priority = "emergency" THEN dir[v].emergency
                                                             ELSE dir[v].available
            within(r) == {v \in Vets : eligible(v) /\ dir[v].dist <= r}
        IN  /\ Notified = (IF within(INITIAL_RADIUS) # {} THEN within(INITIAL_RADIUS)
                                                          ELSE within(WIDE_RADIUS))
            /\ req.status = "pending"
            /\ req.declined = <<>>
            /\ Range(req.requested) = {Str(Uid(v)) : v \in Notified}
            /\ Len(req.requested) = Cardinality(Notified)

\* a creation that found nobody within 50 km and notified two vets within
\* 100 km
C12_Witness ==
    /\ spc = "report_save"
    /\ report.has_coords
    /\ \A v \in Vets : notif[v].exists => dir[v].dist > INITIAL_RADIUS
    /\ Cardinality(Notified) >= 2
    /\ Len(req.requested) = Cardinality(Notified)

\* C13: patient record uniqueness.  The patient table never holds two rows
\* for the same veterinarian and the animal, also when the veterinarian
\* accepted an earlier request for the animal and accepts this one.
C13_OnePatientPerVet ==
    \A i, j \in 1..Len(patients) :
        i # j => patients[i].vet # patients[j].vet

\* a vet whose row dates from an earlier request accepted this request too
C13_Witness ==
    \E v \in accept_ok :
        \E i \in 1..Len(patients) :
            patients[i].vet = v /\ patients[i].request = "earlier"

\* C14: attach reactivation.  When a veterinarian's Accept succeeds and the
\* veterinarian holds a completed patient record for the animal, that record
\* becomes active and refers to the request just accepted.
C14_CompletedReactivated ==
    [][\A v \in Vets :
         (v \notin accept_ok /\ v \in accept_ok') =>
             \A i \in 1..Len(patients) :
                 (patients[i].vet = v /\ patients[i].status = "completed") =>
                     /\ patients'[i].status = "active"
                     /\ patients'[i].request = "this"]_vars

\* C15: one patient record per request.  At most one patient record is
\* created for the request, and once the calls are over every record created
\* for an accepted request belongs to its assigned veterinarian.
C15_OnePatientPerRequest ==
    LET mine == {i \in 1..Len(patients) : patients[i].request = "this"}
    IN  /\ Cardinality(mine) <= 1
        /\ (AllIdle /\ req.status = "accepted") =>
               \A i \in mine : patients[i].vet = req.assigned

\* C16: a Respond on a request that is not pending changes nothing.  With
\* no handler under way and the request accepted or expired, a call (accept,
\* decline or request_info, by any veterinarian) leaves the request row, the
\* notification records, the responses and the patient records as they are.
C16_NonPendingRespondNoop ==
    [][(AllIdle /\ spc = "done" /\ req.status \in {"accepted", "expired"}) =>
         UNCHANGED <<req, notif, responses, patients>>]_vars

\* an accepted request, and a notified vet who has not responded and whose
\* record is still as sent
C16_Witness ==
    /\ AllIdle
    /\ spc = "done"
    /\ req.status = "accepted"
    /\ \E v \in Vets :
           responses[v] = "none" /\ notif[v].exists /\ notif[v].status = "sent"

C18_ExpireGuard ==
    [][(req.status # "expired" /\ req'.status = "expired") =>
         (req.status = "pending" /\ now > req.expires_at)]_vars

\* C20: no lost updates on the notified and declined lists.  While the
\* request stays pending and only Decline calls (with the escalation they
\* trigger) and the creation's write of the notified list are under way, no
\* step removes an entry from the stored notified list or declined list.
C20_ListsOnlyGrow ==
    [][(/\ req.status = "pending" /\ req'.status = "pending"
        /\ opc = "idle" /\ opc' = "idle"
        /\ \A v \in Vets :
               /\ vpc[v] \in {"idle", "decline", "decline_check", "escalate_save"}
               /\ vpc'[v] \in {"idle", "decline", "decline_check", "escalate_save"})
       => /\ Range(req.declined) \subseteq Range(req'.declined)
          /\ Range(req.requested) \subseteq Range(req'.requested)]_vars

C21_ListMatchesRecords ==
    (/\ AllIdle
     /\ spc = "done"
     /\ \A v \in Vets : responses[v] # "none" => Str(Uid(v)) \in Range(req.requested))
        => Notified = {v \in Vets : Str(Uid(v)) \in Range(req.requested)}

C23_NoRenotify ==
    LET nodup(s) == \A i, j \in 1..Len(s) : i # j => s[i] # s[j]
    IN  /\ nodup(req.requested)
        /\ nodup(smem.requested)
        /\ \A v \in Vets : nodup(vmem[v].requested)
        /\ \A v \in Vets : Str(Uid(v)) \in Range(req.requested) => notif[v].exists

\* two escalations have run, the second one over vets the first had given a
\* record, and the list holds a vet an escalation added
C23_Witness ==
    /\ escalations >= 2
    /\ Len(req.requested) >= 3
    /\ \E v \in Vets : Str(Uid(v)) \in Range(req.requested) /\ dir[v].dist > WIDE_RADIUS

\* C24: every request that is pending when its expires_at has passed is
\* eventually expired, whoever acts or does not act on it.
C24_EventuallyExpired ==
    (req.status = "pending" /\ now > req.expires_at) ~> (req.status = "expired")

\* C25: the notifications of an Accept.  The step that completes a
\* successful Accept of veterinarian v finds v's notification record, when v
\* has one, in status responded, issues the acceptance notification to the
\* owner and a case-taken notification for every other veterinarian who holds
\* a record or is named in the notified list, and none for v; any other
\* step, a failed Accept included, issues neither kind of notification.
C25_AcceptNotifications ==
    [][/\ \A v \in Vets :
            (v \notin accept_ok /\ v \in accept_ok') =>
                /\ notif[v].exists => notif'[v].status = "responded"
                /\ "accepted" \in owner_sent'
                /\ \A w \in Vets \ {v} :
                       (notif'[w].exists \/ Str(Uid(w)) \in Range(req'.requested))
                           => <<v, w>> \in taken_sent'
                /\ <<v, v>> \notin taken_sent'
       /\ accept_ok' = accept_ok =>
            /\ taken_sent' = taken_sent
            /\ "accepted" \in owner_sent' => "accepted" \in owner_sent]_vars

StatusRank(s) ==
    CASE s = "absent"    -> 0
      [] s = "submitted" -> 1
      [] s = "notified"  -> 2
      [] s = "accepted"  -> 3
      [] s = "completed" -> 4

\* C27: the status of a symptom report only moves forward along submitted,
\* notified, accepted, completed: no step lowers it, the step that ends the
\* submit operation leaves it notified or later, and it turns accepted on
\* exactly the steps that complete a successful Accept.
C27_ReportStatusForward ==
    [][/\ StatusRank(report_status') >= StatusRank(report_status)
       /\ (spc = "report_save" /\ spc' = "done")
             => StatusRank(report_status') >= StatusRank("notified")
       /\ (report_status # "accepted" /\ report_status' = "accepted")
             => accept_ok' # accept_ok
       /\ accept_ok' # accept_ok => report_status' = "accepted"]_vars

\* C28: only a notified veterinarian wins.  Whenever the stored request is
\* accepted, its assigned veterinarian is named in its notified list and
\* holds a notification record for it.
C28_WinnerWasNotified ==
    req.status = "accepted" =>
        /\ req.assigned \in Vets
        /\ Str(Uid(req.assigned)) \in Range(req.requested)
        /\ notif[req.assigned].exists

\* C29 as stated: a veterinarian's stored response is never modified, and a
\* further Respond of a veterinarian who has responded processes no action
\* and leaves the request as it is.
C29_SecondRespondNoEffect ==
    [][\A v \in Vets : responses[v] # "none" =>
           /\ responses'[v] = responses[v]
           /\ vpc[v] = "idle" => vpc'[v] \in {"idle", "expire_save"}
           /\ (vpc[v] = "expire_save" /\ vpc'[v] = "idle") => req' = req]_vars

\* C29, amended: a veterinarian's stored response is never modified, and a
\* further Respond of a veterinarian who has responded processes no action:
\* the veterinarian's handler ends where it began, without a write to the
\* request, unless the request is pending past its deadline, when the call
\* takes the lazy-expiry path instead.
C29_OneResponse ==
    [][\A v \in Vets : responses[v] # "none" =>
           /\ responses'[v] = responses[v]
           /\ vpc[v] = "idle" =>
                 \/ vpc'[v] = "idle"
                 \/ /\ vpc'[v] = "expire_save"
                    /\ req.status = "pending"
                    /\ now > req.expires_at
                    /\ req' = req
           /\ (vpc[v] = "expire_save" /\ vpc'[v] = "idle") =>
                 /\ now > req.expires_at
                 /\ req'.status = "expired"]_vars

\* a veterinarian who asked for information responds again after the
\* deadline: the call is on the lazy-expiry path
C29_Witness ==
    \E v \in Vets :
        /\ responses[v] = "request_info"
        /\ vpc[v] = "expire_save"
        /\ req.status = "pending"

\* C30: a veterinarian who has declined a request is never its assignee:
\* the assigned veterinarian of the stored request is not named in its
\* declined list.
C30_DeclinedNeverAssigned ==
    req.assigned # None => Str(Uid(req.assigned)) \notin Range(req.declined)

\* the request was accepted by one veterinarian after another had declined
C30_Witness ==
    /\ req.status = "accepted"
    /\ req.assigned \in Vets
    /\ req.declined # <<>>
    /\ responses[req.assigned] = "accept"
    /\ \E w \in Vets \ {req.assigned} : responses[w] = "decline"

====
